---------------------------- MODULE Spec2Model ----------------------------
(***************************************************************************)
(* A model of taskcluster-cli's status command (cmds/status/status.go) and *)
(* of the API-definition generator (apis, GenerateServices).               *)
(*                                                                         *)
(* Strings are sequences of tokens, so that hostname extraction, the       *)
(* split at the first "." and the concatenation baseURL + route are        *)
(* computed and not assumed.  Time is counted in seconds.                  *)
(*                                                                         *)
(* Six specifications share the variables:                                 *)
(*   SpecScrape  ScrapePingURLs applied to every remote world of a bounded *)
(*               set;                                                      *)
(*   SpecCache   the exported cache functions Cache, ReadCachedURLsFile    *)
(*               and Expired called on a file system with two paths;       *)
(*   SpecRefresh RefreshCache called on that file system;                  *)
(*   SpecStatus  the life of one process after another: init(), then the   *)
(*               status command (preRun, status);                          *)
(*   SpecGen     GenerateServices with its worker goroutines;              *)
(*   SpecGenFair SpecGen under the fairness of the goroutine scheduler.    *)
(***************************************************************************)
EXTENDS Integers, Sequences, FiniteSets, TLC

VARIABLES
    now,        \* the wall clock, in seconds
    files,      \* the file system: path -> content
    net,        \* the remote world: what the manifest and reference URLs serve
    phase,      \* the status process: "boot", "ready", "ran", "rejected" or "panic"
    pingURLs,   \* package variable pingURLs (status.go:26)
    validArgs,  \* package variable validArgs (status.go:27)
    reqs,       \* the network requests the current process has issued, in order
    reports,    \* the services the poller has printed as alive, in order
    call,       \* the last call of an exported function, with what it returned
    gpc,        \* GenerateServices: the position of the calling goroutine
    gmanifest,  \* GenerateServices: the service names of the fetched manifest
    gtodo,      \* GenerateServices: what the calling goroutine's loop has still to visit
    mutex,      \* GenerateServices: the holder of mutex, or 0
    wg,         \* GenerateServices: the counter of the wait group
    services,   \* GenerateServices: the services map
    schemas,    \* GenerateServices: the schemas map
    urls,       \* GenerateServices: the already scheduled schema URLs
    wk,         \* GenerateServices: the worker goroutines
    gout        \* GenerateServices: what has been printed to gen.buf, in order

statusVars == <<now, files, net, phase, pingURLs, validArgs, reqs, reports, call>>
genVars == <<gpc, gmanifest, gtodo, mutex, wg, services, schemas, urls, wk, gout>>
vars == <<now, files, net, phase, pingURLs, validArgs, reqs, reports, call,
          gpc, gmanifest, gtodo, mutex, wg, services, schemas, urls, wk, gout>>

-----------------------------------------------------------------------------
(* Bounds. *)

\* The most services a manifest of the status command lists.
MaxAPIs == 2

\* The most services the manifest of the generator lists.
MaxServices == 2

\* The most arguments the status command is given.
MaxArgs == 2

\* The clock runs over the instants around each multiple of 24 hours up to
\* MaxDays days.
MaxDays == 1

-----------------------------------------------------------------------------
(* Strings. *)

SCHEME == "https://"
CTL == "\\x7f"
DOT == "."
PATHV1 == "/v1"

\* A map with one more (or one replaced) entry: m[k] = v of Go.
MapPut(m, k, v) == [x \in (DOMAIN m) \cup {k} |-> IF x = k THEN v ELSE m[x]]

EmptyMap == [x \in {} |-> <<>>]

\* The index of the first token of s that is in set T, or Len(s) + 1.
FirstIn(s, T) ==
    IF \E i \in 1..Len(s) : s[i] \in T
    THEN CHOOSE i \in 1..Len(s) : s[i] \in T /\ \A j \in 1..(i - 1) : s[j] \notin T
    ELSE Len(s) + 1

\* url.Parse: fails on a string that holds token CTL, which stands for what
\* url.Parse rejects (a control character, an invalid % escape in the host).
URLParseOK(u) == \A i \in 1..Len(u) : u[i] # CTL

\* (*URL).Hostname of a parsed URL: the host between the scheme and the path;
\* a string without a scheme parses as a path and has no host.
Hostname(u) ==
    IF Len(u) > 0 /\ u[1] = SCHEME
    THEN SubSeq(u, 2, FirstIn(Tail(u), {PATHV1}))
    ELSE <<>>

\* A mutation of ServiceOf: the whole hostname.
ServiceOfWholeHost(hostname) == hostname

\* strings.SplitN(hostname, ".", 2)[0]
ServiceOf(hostname) == SubSeq(hostname, 1, FirstIn(hostname, {DOT}) - 1)

-----------------------------------------------------------------------------
(* The remote world of the status command. *)

PING == "ping"

APIEntries ==
    { [Name |-> PING, Route |-> <<"/ping">>],
      [Name |-> PING, Route |-> <<"/alt">>],
      [Name |-> "Ping", Route |-> <<"/v1x">>] }

EntryLists ==
    { <<>> } \cup { <<e>> : e \in APIEntries }
    \cup { <<[Name |-> "Ping", Route |-> <<"/v1x">>], [Name |-> PING, Route |-> <<"/ping">>]>>,
           <<[Name |-> PING, Route |-> <<"/ping">>], [Name |-> PING, Route |-> <<"/alt">>]>> }

BaseURLs ==
    { <<SCHEME, "q", DOT, "t">>,
      <<SCHEME, "q", DOT, "x", PATHV1>>,
      <<SCHEME, "a">>,
      <<SCHEME, DOT, "a">>,
      <<"q", DOT, "t">>,
      <<SCHEME, "a", CTL>> }

\* type API (status.go:44-47)
References == [BaseURL : BaseURLs, Entries : EntryLists]

NoAPI == [BaseURL |-> <<>>, Entries |-> <<>>]

\* What one reference URL serves: a reference document, or a failure
\* (transport error, status other than 200, or a body that does not decode).
Responses(R) == { [ok |-> TRUE, api |-> r] : r \in R } \cup { [ok |-> FALSE, api |-> NoAPI] }

SeqsUpTo(S, n) == UNION { [1..k -> S] : k \in 0..n }

\* A world: whether the manifest fetch succeeds, and what the reference URLs
\* serve, in the order in which the range over the manifest visits them.
Worlds(R, n) ==
    { [manifestOK |-> FALSE, refs |-> <<>>] }
    \cup { [manifestOK |-> TRUE, refs |-> s] : s \in SeqsUpTo(Responses(R), n) }

NoWorld == [manifestOK |-> FALSE, refs |-> <<>>]

-----------------------------------------------------------------------------
(* ScrapePingURLs (status.go:177-209). *)

HasPing(api) == \E j \in 1..Len(api.Entries) : api.Entries[j].Name = PING

\* A mutation of FirstPing: the scan goes on after a match (no break), so the
\* last entry named "ping" is the one used.
LastPing(api) ==
    api.Entries[CHOOSE j \in 1..Len(api.Entries) :
                    /\ api.Entries[j].Name = PING
                    /\ \A l \in (j + 1)..Len(api.Entries) : api.Entries[l].Name # PING]

\* The first entry named "ping" (status.go:193-194, left by the break of 204).
FirstPing(api) == api.Entries[FirstIn([j \in 1..Len(api.Entries) |-> api.Entries[j].Name], {PING})]

\* The body of the loop for one fetched reference (status.go:192-206).
ScrapeEntries(api, acc) ==
    IF ~HasPing(api) THEN [err |-> "nil", acc |-> acc]
    ELSE IF ~URLParseOK(api.BaseURL) THEN [err |-> "parse", acc |-> acc]
    ELSE [err |-> "nil",
          acc |-> MapPut(acc, ServiceOf(Hostname(api.BaseURL)),
                         api.BaseURL \o FirstPing(api).Route)]

RECURSIVE ScrapeLoop(_, _, _)
\* The range over the manifest from its i-th entry on (status.go:185-207).
\* fetches counts the requests issued, the manifest's included.
ScrapeLoop(refs, i, acc) ==
    IF i > Len(refs) THEN [pingURLs |-> acc, err |-> "nil", fetches |-> Len(refs) + 1]
    ELSE IF ~refs[i].ok THEN [pingURLs |-> acc, err |-> "fetch", fetches |-> i + 1]
    ELSE LET r == ScrapeEntries(refs[i].api, acc)
         IN  IF r.err # "nil"
             THEN [pingURLs |-> acc, err |-> r.err, fetches |-> i + 1]
             ELSE ScrapeLoop(refs, i + 1, r.acc)

ScrapePingURLs(w) ==
    IF ~w.manifestOK THEN [pingURLs |-> EmptyMap, err |-> "fetch", fetches |-> 1]
    ELSE ScrapeLoop(w.refs, 1, EmptyMap)

-----------------------------------------------------------------------------
(* Time. *)

\* time.Hour, in seconds (status.go:113 and 114 pass time.Hour * 24).
Hour == 3600

MaxAge == Hour * 24

\* The instants of the clock: one second before, at and after each multiple
\* of 24 hours.
Instants == { t \in { k * MaxAge + j : k \in 0..MaxDays, j \in {-1, 0, 1} } : t >= 0 }

\* A mutation of Expired: an age of exactly d counts as expired.
ExpiredAtEqual(rec, d, t) == t - rec.LastUpdated >= d

\* (*CachedURLs).Expired (status.go:167-169): time.Since(LastUpdated) > d,
\* at clock t.
Expired(rec, d, t) == t - rec.LastUpdated > d

-----------------------------------------------------------------------------
(* The cache file (status.go:131-165). *)

\* cacheFile = CacheFilePath() (status.go:28, 56-66)
CacheFile == "~/.taskcluster-cli/cmds/status/cache.json"

OtherPath == "/tmp/other/cache.json"

Paths == {CacheFile, OtherPath}

\* What a path holds: nothing, bytes that are no JSON record (or that cannot
\* be read), the JSON text null, or the JSON object
\* {"lastUpdated": ..., "pingURLs": {...}}, whose members are a set of
\* key/value pairs.
Absent == [kind |-> "absent", lastUpdated |-> 0, pairs |-> {}]
Corrupt == [kind |-> "corrupt", lastUpdated |-> 0, pairs |-> {}]
NullJSON == [kind |-> "null", lastUpdated |-> 0, pairs |-> {}]

\* type CachedURLs (status.go:34-37)
CachedURLsRec(t, p) == [LastUpdated |-> t, PingURLs |-> p]

NilRec == CachedURLsRec(0, EmptyMap)

\* json.MarshalIndent of a CachedURLs (status.go:159)
Marshal(rec) ==
    [kind |-> "json", lastUpdated |-> rec.LastUpdated,
     pairs |-> { <<k, rec.PingURLs[k]>> : k \in DOMAIN rec.PingURLs }]

\* json.Unmarshal into a *CachedURLs (status.go:140)
Unmarshal(content) ==
    CachedURLsRec(content.lastUpdated,
                  [k \in { p[1] : p \in content.pairs } |->
                       (CHOOSE p \in content.pairs : p[1] = k)[2]])

\* ReadCachedURLsFile (status.go:133-142).  isNil: the pointer returned is
\* nil (an error, or the JSON text null, which json.Unmarshal stores as a nil
\* pointer without an error).
ReadCachedURLsFile(fs, path) ==
    CASE fs[path].kind = "absent" -> [rec |-> NilRec, isNil |-> TRUE, err |-> "notexist"]
      [] fs[path].kind = "corrupt" -> [rec |-> NilRec, isNil |-> TRUE, err |-> "read"]
      [] fs[path].kind = "null" -> [rec |-> NilRec, isNil |-> TRUE, err |-> "nil"]
      [] OTHER -> [rec |-> Unmarshal(fs[path]), isNil |-> FALSE, err |-> "nil"]

\* What the file system does to one Cache call: everything works, MkdirAll
\* fails, WriteFile fails to open the file, or WriteFile fails after it has
\* truncated the file.
IOOutcomes == {"ok", "mkdir", "open", "write"}

\* The file Cache writes: ioutil.WriteFile(cacheFile, ...) (status.go:163)
\* names the package variable, not the parameter path.
WrittenPath(path) == CacheFile

\* PingURLs.Cache (status.go:147-165) at clock t.
Cache(fs, p, path, t, io) ==
    IF io = "mkdir"
    THEN [fs |-> fs, rec |-> NilRec, isNil |-> TRUE, err |-> "mkdir"]
    ELSE LET rec == CachedURLsRec(t, p)
         IN  CASE io = "open" -> [fs |-> fs, rec |-> rec, isNil |-> FALSE, err |-> "write"]
               [] io = "write" ->
                    [fs |-> [fs EXCEPT ![WrittenPath(path)] = Corrupt],
                     rec |-> rec, isNil |-> FALSE, err |-> "write"]
               [] OTHER ->
                    [fs |-> [fs EXCEPT ![WrittenPath(path)] = Marshal(rec)],
                     rec |-> rec, isNil |-> FALSE, err |-> "nil"]

\* A mutation of RefreshCache: the map scraped so far is cached although a
\* fetch failed.
RefreshCacheIgnoringError(fs, w, path, t, io) ==
    LET s == ScrapePingURLs(w)
        c == Cache(fs, s.pingURLs, path, t, io)
    IN  IF c.isNil
        THEN [fs |-> c.fs, pingURLs |-> EmptyMap, err |-> c.err, panic |-> TRUE,
              fetches |-> s.fetches]
        ELSE [fs |-> c.fs, pingURLs |-> c.rec.PingURLs, err |-> c.err, panic |-> FALSE,
              fetches |-> s.fetches]

\* RefreshCache (status.go:122-129) at clock t.  panic: cachedURLs.PingURLs
\* (status.go:128) dereferences the nil pointer Cache returns when MkdirAll
\* fails.
RefreshCache(fs, w, path, t, io) ==
    LET s == ScrapePingURLs(w)
    IN  IF s.err # "nil"
        THEN [fs |-> fs, pingURLs |-> s.pingURLs, err |-> s.err, panic |-> FALSE,
              fetches |-> s.fetches]
        ELSE LET c == Cache(fs, s.pingURLs, path, t, io)
             IN  IF c.isNil
                 THEN [fs |-> c.fs, pingURLs |-> EmptyMap, err |-> c.err, panic |-> TRUE,
                       fetches |-> s.fetches]
                 ELSE [fs |-> c.fs, pingURLs |-> c.rec.PingURLs, err |-> c.err,
                       panic |-> FALSE, fetches |-> s.fetches]

-----------------------------------------------------------------------------
(* Idle values of the variables a specification does not use. *)

NoCall == [op |-> "none", path |-> "", arg |-> EmptyMap, err |-> "nil", out |-> EmptyMap,
           at |-> 0, n |-> 0]

StatusIdle ==
    /\ now = 0
    /\ files = <<>>
    /\ net = NoWorld
    /\ phase = "off"
    /\ pingURLs = EmptyMap
    /\ validArgs = <<>>
    /\ reqs = <<>>
    /\ reports = <<>>
    /\ call = NoCall

GenIdle ==
    /\ gpc = "off"
    /\ gmanifest = {}
    /\ gtodo = <<>>
    /\ mutex = 0
    /\ wg = 0
    /\ services = EmptyMap
    /\ schemas = EmptyMap
    /\ urls = {}
    /\ wk = <<>>
    /\ gout = <<>>

-----------------------------------------------------------------------------
(* SpecScrape: ScrapePingURLs on every world. *)

InitScrape ==
    /\ GenIdle
    /\ now = 0
    /\ files = <<>>
    /\ net \in Worlds(References, MaxAPIs)
    /\ phase = "off"
    /\ pingURLs = EmptyMap
    /\ validArgs = <<>>
    /\ reqs = <<>>
    /\ reports = <<>>
    /\ call = NoCall

CallScrape ==
    /\ call.op = "none"
    /\ LET r == ScrapePingURLs(net)
       IN  call' = [op |-> "ScrapePingURLs", path |-> "", arg |-> EmptyMap,
                    err |-> r.err, out |-> r.pingURLs, at |-> now, n |-> r.fetches]
    /\ UNCHANGED <<now, files, net, phase, pingURLs, validArgs, reqs, reports>>
    /\ UNCHANGED genVars

NextScrape == CallScrape

SpecScrape == InitScrape /\ [][NextScrape]_vars


-----------------------------------------------------------------------------
(* SpecCache: the exported cache functions, called in any order. *)

CacheRefs ==
    { [BaseURL |-> <<SCHEME, "q", DOT, "t">>,
       Entries |-> <<[Name |-> PING, Route |-> <<"/ping">>]>>],
      [BaseURL |-> <<SCHEME, "a">>,
       Entries |-> <<[Name |-> "Ping", Route |-> <<"/v1x">>],
                     [Name |-> PING, Route |-> <<"/alt">>]>>] }

\* The maps a caller holds: those a scrape of one or two of CacheRefs returns.
CacheMaps ==
    { ScrapePingURLs([manifestOK |-> TRUE, refs |-> s]).pingURLs :
        s \in SeqsUpTo(Responses(CacheRefs), 2) }

\* The maximum ages Expired is called with: the program's 24 hours, and none.
MaxAges == {0, MaxAge}

InitCache ==
    /\ GenIdle
    /\ now = 0
    /\ files \in [Paths -> {Absent, Corrupt, NullJSON}]
    /\ net = NoWorld
    /\ phase = "off"
    /\ pingURLs = EmptyMap
    /\ validArgs = <<>>
    /\ reqs = <<>>
    /\ reports = <<>>
    /\ call = NoCall

\* Time passes.
Tick ==
    /\ call.op = "none"
    /\ \E t \in Instants : t > now /\ now' = t
    /\ UNCHANGED <<files, net, phase, pingURLs, validArgs, reqs, reports, call>>
    /\ UNCHANGED genVars

\* The caller is done with what the last call returned.
Return ==
    /\ call.op \notin {"none", "ScrapePingURLs"}
    /\ call' = NoCall
    /\ net' = NoWorld
    /\ UNCHANGED <<now, files, phase, pingURLs, validArgs, reqs, reports>>
    /\ UNCHANGED genVars

\* p.Cache(path)
CallCache ==
    /\ call.op = "none"
    /\ \E p \in CacheMaps, path \in Paths, io \in IOOutcomes :
         LET c == Cache(files, p, path, now, io)
         IN  /\ files' = c.fs
             /\ call' = [op |-> "Cache", path |-> path, arg |-> p, err |-> c.err,
                         out |-> IF c.isNil THEN EmptyMap ELSE c.rec.PingURLs,
                         at |-> now, n |-> 0]
    /\ UNCHANGED <<now, net, phase, pingURLs, validArgs, reqs, reports>>
    /\ UNCHANGED genVars

\* ReadCachedURLsFile(path)
CallRead ==
    /\ call.op = "none"
    /\ \E path \in Paths :
         LET r == ReadCachedURLsFile(files, path)
         IN  call' = [op |-> "ReadCachedURLsFile", path |-> path, arg |-> EmptyMap,
                      err |-> r.err, out |-> r.rec.PingURLs,
                      at |-> r.rec.LastUpdated, n |-> 0]
    /\ UNCHANGED <<now, files, net, phase, pingURLs, validArgs, reqs, reports>>
    /\ UNCHANGED genVars

\* cachedURLs.Expired(d) on the record read from path.  arg: the record's
\* lastUpdated and d; out: the result.
CallExpired ==
    /\ call.op = "none"
    /\ \E path \in Paths, d \in MaxAges :
         LET r == ReadCachedURLsFile(files, path)
         IN  /\ ~r.isNil
             /\ call' = [op |-> "Expired", path |-> path,
                         arg |-> [lastUpdated |-> r.rec.LastUpdated, d |-> d],
                         err |-> "nil", out |-> Expired(r.rec, d, now),
                         at |-> now, n |-> 0]
    /\ UNCHANGED <<now, files, net, phase, pingURLs, validArgs, reqs, reports>>
    /\ UNCHANGED genVars

NextCache ==
    \/ Tick
    \/ CallCache
    \/ CallRead
    \/ CallExpired
    \/ Return

SpecCache == InitCache /\ [][NextCache]_vars

-----------------------------------------------------------------------------
(* SpecRefresh: RefreshCache called again and again while the remote world  *)
(* and the clock change.                                                    *)

RefreshRefs ==
    CacheRefs \cup
    { [BaseURL |-> <<SCHEME, "a", CTL>>,
       Entries |-> <<[Name |-> PING, Route |-> <<"/ping">>]>>] }

RefreshWorlds == Worlds(RefreshRefs, MaxAPIs)

InitRefresh ==
    /\ GenIdle
    /\ now = 0
    /\ files \in [Paths -> {Absent, Corrupt}]
    /\ net = NoWorld
    /\ phase = "off"
    /\ pingURLs = EmptyMap
    /\ validArgs = <<>>
    /\ reqs = <<>>
    /\ reports = <<>>
    /\ call = NoCall

\* RefreshCache(manifestURL, path), the remote world being w during the
\* call.  A call that panics returns nothing.
CallRefreshCache ==
    /\ call.op = "none"
    /\ \E w \in RefreshWorlds, path \in Paths, io \in IOOutcomes :
         LET r == RefreshCache(files, w, path, now, io)
         IN  /\ net' = w
             /\ files' = r.fs
             /\ call' = [op |-> "RefreshCache", path |-> path, arg |-> EmptyMap,
                         err |-> IF r.panic THEN "panic" ELSE r.err,
                         out |-> r.pingURLs, at |-> now, n |-> r.fetches]
    /\ UNCHANGED <<now, phase, pingURLs, validArgs, reqs, reports>>
    /\ UNCHANGED genVars

NextRefresh ==
    \/ Tick
    \/ CallRefreshCache
    \/ Return

SpecRefresh == InitRefresh /\ [][NextRefresh]_vars

-----------------------------------------------------------------------------
(* The status command (status.go:68-118, 228-267). *)

\* A mutation of NewPingURLs: the cache is written again, with a new time
\* stamp, whenever it has been read.
NewPingURLsRestamping(fs, w, t, io) ==
    LET r == ReadCachedURLsFile(fs, CacheFile)
    IN  IF fs[CacheFile].kind = "absent"
        THEN RefreshCache(fs, w, CacheFile, t, io)
        ELSE IF r.err # "nil"
        THEN [fs |-> fs, pingURLs |-> EmptyMap, err |-> r.err, panic |-> FALSE, fetches |-> 0]
        ELSE IF r.isNil
        THEN [fs |-> fs, pingURLs |-> EmptyMap, err |-> "nil", panic |-> TRUE, fetches |-> 0]
        ELSE IF Expired(r.rec, MaxAge, t)
        THEN RefreshCache(fs, w, CacheFile, t, io)
        ELSE [fs |-> Cache(fs, r.rec.PingURLs, CacheFile, t, "ok").fs,
              pingURLs |-> r.rec.PingURLs, err |-> "nil", panic |-> FALSE, fetches |-> 0]

\* NewPingURLs (status.go:105-118) at clock t, the remote world being w.
\* panic: Expired (status.go:113, 168) dereferences the nil pointer that
\* ReadCachedURLsFile returns for a file holding the JSON text null.
NewPingURLs(fs, w, t, io) ==
    IF fs[CacheFile].kind = "absent"
    THEN RefreshCache(fs, w, CacheFile, t, io)
    ELSE LET r == ReadCachedURLsFile(fs, CacheFile)
         IN  IF r.err # "nil"
             THEN [fs |-> fs, pingURLs |-> EmptyMap, err |-> r.err, panic |-> FALSE,
                   fetches |-> 0]
             ELSE IF r.isNil
             THEN [fs |-> fs, pingURLs |-> EmptyMap, err |-> "nil", panic |-> TRUE,
                   fetches |-> 0]
             ELSE IF Expired(r.rec, MaxAge, t)
             THEN RefreshCache(fs, w, CacheFile, t, io)
             ELSE [fs |-> fs, pingURLs |-> r.rec.PingURLs, err |-> "nil", panic |-> FALSE,
                   fetches |-> 0]

\* The requests of a scrape that issued n fetches: the manifest's, then the
\* references'.
FetchRequests(n) ==
    [i \in 1..n |-> [kind |-> IF i = 1 THEN "manifest" ELSE "reference", svc |-> <<>>,
                     ans |-> "ok"]]

\* The orders in which a range over map m can visit its keys.
KeyOrders(m) ==
    { s \in [1..Cardinality(DOMAIN m) -> DOMAIN m] :
        \A i, j \in 1..Cardinality(DOMAIN m) : i # j => s[i] # s[j] }

InSeq(x, s) == \E i \in 1..Len(s) : s[i] = x

\* A mutation of ValidateArgs: only the first argument is checked.
ValidateArgsFirstOnly(valid, args) ==
    IF Len(args) > 0 /\ ~InSeq(args[1], valid) THEN "invalid" ELSE "nil"

\* validateArgs (status.go:228-239), cmd.ValidArgs being valid.
ValidateArgs(valid, args) ==
    IF \E i \in 1..Len(args) : ~InSeq(args[i], valid) THEN "invalid" ELSE "nil"

\* What a health endpoint answers: alive, not alive, or a failure (transport
\* error, status other than 200, or a body that does not decode).
HealthOutcomes == {"alive", "dead", "fail"}

\* What n requests in a row meet.  The loop of status ends at the first
\* failure, so the answers after it are never asked for: they are written
\* as failures too.
HealthAnswers(n) ==
    { h \in [1..n -> HealthOutcomes] :
        \A i, j \in 1..n : (i < j /\ h[i] = "fail") => h[j] = "fail" }

\* A mutation of RespBody: the service is printed whatever alive is.
RespBodyPrintingAlways(urlmap, service, ans) ==
    IF service \notin DOMAIN urlmap \/ ans = "fail"
    THEN [err |-> "fetch", printed |-> FALSE, ans |-> "fail"]
    ELSE [err |-> "nil", printed |-> TRUE, ans |-> ans]

\* respbody (status.go:241-254), the request meeting ans.  The URL of a
\* service without an entry in the map is pingURLs[service] = "", and a
\* request at the empty URL fails.  printed: the service has been printed as
\* alive (status.go:247-251).
RespBody(urlmap, service, ans) ==
    IF service \notin DOMAIN urlmap \/ ans = "fail"
    THEN [err |-> "fetch", printed |-> FALSE, ans |-> "fail"]
    ELSE [err |-> "nil", printed |-> ans = "alive", ans |-> ans]

RECURSIVE StatusLoop(_, _, _, _, _, _)
\* The loop of status (status.go:260-265) from the i-th service on; h[i] is
\* what the i-th request meets.  An error of respbody ends the loop in a
\* panic (status.go:262-264).
StatusLoop(urlmap, list, h, i, rq, rp) ==
    IF i > Len(list) THEN [reqs |-> rq, reports |-> rp, panic |-> FALSE]
    ELSE LET b == RespBody(urlmap, list[i], h[i])
             rq2 == Append(rq, [kind |-> "health", svc |-> list[i], ans |-> b.ans])
         IN  IF b.err # "nil"
             THEN [reqs |-> rq2, reports |-> rp, panic |-> TRUE]
             ELSE StatusLoop(urlmap, list, h, i + 1, rq2,
                             IF b.printed THEN Append(rp, list[i]) ELSE rp)

\* A mutation of PolledList: an empty list is polled as it is.
PolledListWithoutDefault(valid, args) == args

\* The list status polls (status.go:257-259).
PolledList(valid, args) == IF Len(args) = 0 THEN valid ELSE args

\* The status command run with args (status.go:84-96): PreRunE, and RunE
\* only if PreRunE returned no error.
StatusCmd(urlmap, valid, args, h, rq, rp) ==
    IF ValidateArgs(valid, args) # "nil"
    THEN [reqs |-> rq, reports |-> rp, panic |-> FALSE, err |-> "invalid"]
    ELSE LET r == StatusLoop(urlmap, PolledList(valid, args), h, 1, rq, rp)
         IN  [reqs |-> r.reqs, reports |-> r.reports, panic |-> r.panic, err |-> "nil"]

-----------------------------------------------------------------------------
(* SpecStatus: one process after another on the same file system. *)

StatusWorlds == Worlds(CacheRefs, MaxAPIs)

\* The names given as arguments: the two services and an unknown one.
ArgNames == { <<"q">>, <<"a">>, <<"z">> }

InitStatus ==
    /\ GenIdle
    /\ now = 0
    /\ files \in { [p \in Paths |-> IF p = CacheFile THEN c ELSE Absent] :
                     c \in {Absent, Corrupt, NullJSON} }
    /\ net = NoWorld
    /\ phase = "boot"
    /\ pingURLs = EmptyMap
    /\ validArgs = <<>>
    /\ reqs = <<>>
    /\ reports = <<>>
    /\ call = NoCall

\* init() (status.go:68-100), the remote world being w.
Boot ==
    /\ phase = "boot"
    /\ \E w \in StatusWorlds, io \in IOOutcomes :
         LET r == NewPingURLs(files, w, now, io)
             failed == r.panic \/ r.err # "nil"
         IN  /\ net' = w
             /\ files' = r.fs
             /\ reqs' = FetchRequests(r.fetches)
             /\ call' = [op |-> "init", path |-> CacheFile, arg |-> EmptyMap,
                         err |-> IF r.panic THEN "panic" ELSE r.err,
                         out |-> r.pingURLs, at |-> now, n |-> r.fetches]
             /\ IF failed
                THEN /\ phase' = "panic"
                     /\ UNCHANGED <<pingURLs, validArgs>>
                ELSE /\ phase' = "ready"
                     /\ pingURLs' = r.pingURLs
                     /\ validArgs' \in KeyOrders(r.pingURLs)
    /\ UNCHANGED <<now, reports>>
    /\ UNCHANGED genVars

\* taskcluster-cli status args...
Run ==
    /\ phase = "ready"
    /\ \E args \in SeqsUpTo(ArgNames, MaxArgs) :
         \E h \in HealthAnswers(Len(PolledList(validArgs, args))) :
            LET r == StatusCmd(pingURLs, validArgs, args, h, reqs, reports)
            IN  /\ reqs' = r.reqs
                /\ reports' = r.reports
                /\ call' = [op |-> "status", path |-> "", arg |-> args, err |-> r.err,
                            out |-> EmptyMap, at |-> now, n |-> 0]
                /\ phase' = IF r.panic THEN "panic"
                            ELSE IF r.err # "nil" THEN "rejected" ELSE "ran"
    /\ UNCHANGED <<now, files, net, pingURLs, validArgs>>
    /\ UNCHANGED genVars

\* The process ends; the next one starts with the files the last one left.
Restart ==
    /\ phase \in {"ran", "rejected", "panic"}
    /\ phase' = "boot"
    /\ pingURLs' = EmptyMap
    /\ validArgs' = <<>>
    /\ reqs' = <<>>
    /\ reports' = <<>>
    /\ call' = NoCall
    /\ net' = NoWorld
    /\ UNCHANGED <<now, files>>
    /\ UNCHANGED genVars

NextStatus ==
    \/ Tick
    \/ Boot
    \/ Run
    \/ Restart

SpecStatus == InitStatus /\ [][NextStatus]_vars

-----------------------------------------------------------------------------
(* GenerateServices (apis, part_000:17-101). *)

AllServiceNames == <<"auth", "queue", "index", "hooks", "github">>

ServiceNames == { AllServiceNames[i] : i \in 1..MaxServices }

SchemaURLs == {"u1", "u2"}

\* The entries a fetched reference can hold: the Input and Output schema
\* URLs of each, "" where there is none.
GenEntryLists ==
    { <<>>,
      <<[Input |-> "u1", Output |-> "u1"]>>,
      <<[Input |-> "u2", Output |-> "u1"]>>,
      <<[Input |-> "", Output |-> "u2"], [Input |-> "u1", Output |-> ""]>> }

\* The schema URLs of a list of entries, in the order in which the loop of
\* part_000:89-92 passes them to addSchema.
RECURSIVE EntryURLs(_)
EntryURLs(es) ==
    IF es = <<>> THEN <<>>
    ELSE <<es[1].Input, es[1].Output>> \o EntryURLs(Tail(es))

RECURSIVE AllEntryURLs(_, _)
\* The same for the services of map svcs visited in order ord.
AllEntryURLs(svcs, ord) ==
    IF ord = <<>> THEN <<>>
    ELSE EntryURLs(svcs[Head(ord)]) \o AllEntryURLs(svcs, Tail(ord))

\* A mutation of SkipSchema: the already scheduled set is not consulted.
SkipSchemaOnlyEmpty(url, scheduled) == url = ""

\* The test of addSchema (part_000:72-74): url == "" || urls[url].
SkipSchema(url, scheduled) == url = "" \/ url \in scheduled

\* The bytes of the strings that are keys of the two maps.
Bytes ==
    "auth" :> <<97, 117, 116, 104>> @@ "queue" :> <<113, 117, 101, 117, 101>>
    @@ "index" :> <<105, 110, 100, 101, 120>> @@ "hooks" :> <<104, 111, 111, 107, 115>>
    @@ "github" :> <<103, 105, 116, 104, 117, 98>>
    @@ "u1" :> <<117, 49>> @@ "u2" :> <<117, 50>>

RECURSIVE BytesLess(_, _)
\* x < y of two Go strings, given as their bytes.
BytesLess(x, y) ==
    IF y = <<>> THEN FALSE
    ELSE IF x = <<>> THEN TRUE
    ELSE IF x[1] # y[1] THEN x[1] < y[1]
    ELSE BytesLess(Tail(x), Tail(y))

RECURSIVE InsertSorted(_, _)
\* Sequence s, which is sorted, with string k at its place.
InsertSorted(k, s) ==
    IF s = <<>> THEN <<k>>
    ELSE IF BytesLess(Bytes[s[1]], Bytes[k]) THEN <<s[1]>> \o InsertSorted(k, Tail(s))
    ELSE <<k>> \o s

\* A mutation of SortStrings: the keys stay in the order of MapKeys.
SortStringsLeavingOrder(s) == s

RECURSIVE SortStrings(_)
\* sort.Strings(sortedK) (part_000:202)
SortStrings(s) ==
    IF s = <<>> THEN <<>>
    ELSE InsertSorted(s[1], SortStrings(Tail(s)))

\* gen.PrettyPrint of a map with string keys (part_000:187-208, 218), keys
\* being v.MapKeys(), which come in any order: what is printed between the
\* braces, an entry "key: value," after the other.
PrettyPrint(m, keys) ==
    LET sortedK == SortStrings(keys)
    IN  [i \in 1..Len(sortedK) |-> <<sortedK[i], m[sortedK[i]]>>]

\* Where the calling goroutine goes after an addSchema call.
AfterAdd(todo) == IF todo = <<>> THEN "wait2" ELSE "range2"

\* A worker goroutine: what it fetches, where it is ("fetch", "lock",
\* "store", "unlock", "signal", "ended", or "failed" when its fetch has
\* ended the process), and what it has fetched.
Worker(kind, key) == [kind |-> kind, key |-> key, pc |-> "fetch", val |-> <<>>]

\* log.Fatalln has ended the process, or GenerateServices has returned.
GenStopped == gpc \in {"off", "fatal", "done"}

\* g.Get(manifestURL).Send() and json.Unmarshal (part_000:35-43); a failure
\* of either ends the process (log.Fatalln).
GFetchManifest ==
    /\ gpc = "start"
    /\ \/ /\ gpc' = "fatal"
          /\ UNCHANGED <<gmanifest, gtodo>>
       \/ \E names \in SUBSET ServiceNames :
            /\ gmanifest' = names
            /\ gtodo' = names
            /\ gpc' = IF names = {} THEN "wait1" ELSE "spawn1"
    /\ UNCHANGED <<mutex, wg, services, schemas, urls, wk, gout>>
    /\ UNCHANGED statusVars

\* One iteration of the range over the manifest (part_000:47-57): wg.Add(1)
\* and the go statement.
GSpawnService ==
    /\ gpc = "spawn1"
    /\ \E n \in gtodo :
         /\ wg' = wg + 1
         /\ wk' = Append(wk, Worker("service", n))
         /\ gtodo' = gtodo \ {n}
         /\ gpc' = IF gtodo' = {} THEN "wait1" ELSE "spawn1"
    /\ UNCHANGED <<gmanifest, mutex, services, schemas, urls, gout>>
    /\ UNCHANGED statusVars

\* A mutation of GEmitServices: the services map is emitted without wg.Wait().
GEmitServicesWithoutWait ==
    /\ gpc = "wait1"
    /\ \E keys \in KeyOrders(services) :
         gout' = Append(gout, [var |-> "services", val |-> services,
                               text |-> PrettyPrint(services, keys)])
    /\ \E ord \in KeyOrders(services) :
         /\ gtodo' = AllEntryURLs(services, ord)
         /\ gpc' = AfterAdd(gtodo')
    /\ UNCHANGED <<gmanifest, mutex, wg, services, schemas, urls, wk>>
    /\ UNCHANGED statusVars

\* wg.Wait() returns and the services map is emitted (part_000:58-67); the
\* range over services (part_000:88) then visits them in some order.
GEmitServices ==
    /\ gpc = "wait1"
    /\ wg = 0
    /\ \E keys \in KeyOrders(services) :
         gout' = Append(gout, [var |-> "services", val |-> services,
                               text |-> PrettyPrint(services, keys)])
    /\ \E ord \in KeyOrders(services) :
         /\ gtodo' = AllEntryURLs(services, ord)
         /\ gpc' = AfterAdd(gtodo')
    /\ UNCHANGED <<gmanifest, mutex, wg, services, schemas, urls, wk>>
    /\ UNCHANGED statusVars

\* addSchema(url), the test (part_000:72-74).
GAddSchemaCheck ==
    /\ gpc = "range2"
    /\ IF SkipSchema(Head(gtodo), urls)
       THEN /\ gtodo' = Tail(gtodo)
            /\ gpc' = AfterAdd(gtodo')
       ELSE /\ gpc' = "insert"
            /\ UNCHANGED gtodo
    /\ UNCHANGED <<gmanifest, mutex, wg, services, schemas, urls, wk, gout>>
    /\ UNCHANGED statusVars

\* addSchema(url): urls[url] = true (part_000:77).
GAddSchemaInsert ==
    /\ gpc = "insert"
    /\ urls' = urls \cup {Head(gtodo)}
    /\ gpc' = "launch"
    /\ UNCHANGED <<gmanifest, gtodo, mutex, wg, services, schemas, wk, gout>>
    /\ UNCHANGED statusVars

\* addSchema(url): wg.Add(1) and the go statement (part_000:78-86).
GAddSchemaLaunch ==
    /\ gpc = "launch"
    /\ wg' = wg + 1
    /\ wk' = Append(wk, Worker("schema", Head(gtodo)))
    /\ gtodo' = Tail(gtodo)
    /\ gpc' = AfterAdd(gtodo')
    /\ UNCHANGED <<gmanifest, mutex, services, schemas, urls, gout>>
    /\ UNCHANGED statusVars

\* wg.Wait() returns and the schemas map is emitted (part_000:94-98).
GEmitSchemas ==
    /\ gpc = "wait2"
    /\ wg = 0
    /\ \E keys \in KeyOrders(schemas) :
         gout' = Append(gout, [var |-> "schemas", val |-> schemas,
                               text |-> PrettyPrint(schemas, keys)])
    /\ gpc' = "format"
    /\ UNCHANGED <<gmanifest, gtodo, mutex, wg, services, schemas, urls, wk>>
    /\ UNCHANGED statusVars

\* return gen.Format() (part_000:100)
GFormat ==
    /\ gpc = "format"
    /\ gpc' = "done"
    /\ UNCHANGED <<gmanifest, gtodo, mutex, wg, services, schemas, urls, wk, gout>>
    /\ UNCHANGED statusVars

\* A mutation of WFetch: a failed fetch is logged and the worker signals its
\* end, the process going on.
WFetchLoggingOnly(i) ==
    /\ ~GenStopped
    /\ wk[i].pc = "fetch"
    /\ \/ /\ wk' = [wk EXCEPT ![i].pc = "failed"]
          /\ wg' = wg - 1
       \/ /\ \E v \in IF wk[i].kind = "service" THEN GenEntryLists
                      ELSE { <<"schema of", wk[i].key>> } :
               wk' = [wk EXCEPT ![i].pc = "lock", ![i].val = v]
          /\ UNCHANGED wg
    /\ UNCHANGED <<gpc, gmanifest, gtodo, mutex, services, schemas, urls, gout>>
    /\ UNCHANGED statusVars

\* Worker i fetches: fetchService (part_000:105-118) or fetchSchema
\* (part_000:122-134).  A failure ends the process (log.Fatalln).
WFetch(i) ==
    /\ ~GenStopped
    /\ wk[i].pc = "fetch"
    /\ \/ /\ gpc' = "fatal"
          /\ wk' = [wk EXCEPT ![i].pc = "failed"]
       \/ /\ \E v \in IF wk[i].kind = "service" THEN GenEntryLists
                      ELSE { <<"schema of", wk[i].key>> } :
               wk' = [wk EXCEPT ![i].pc = "lock", ![i].val = v]
          /\ UNCHANGED gpc
    /\ UNCHANGED <<gmanifest, gtodo, mutex, wg, services, schemas, urls, gout>>
    /\ UNCHANGED statusVars

\* A mutation of WLock: the lock is taken although another worker holds it.
WLockWithoutWaiting(i) ==
    /\ ~GenStopped
    /\ wk[i].pc = "lock"
    /\ mutex' = i
    /\ wk' = [wk EXCEPT ![i].pc = "store"]
    /\ UNCHANGED <<gpc, gmanifest, gtodo, wg, services, schemas, urls, gout>>
    /\ UNCHANGED statusVars

\* mutex.Lock() (part_000:52, 82)
WLock(i) ==
    /\ ~GenStopped
    /\ wk[i].pc = "lock"
    /\ mutex = 0
    /\ mutex' = i
    /\ wk' = [wk EXCEPT ![i].pc = "store"]
    /\ UNCHANGED <<gpc, gmanifest, gtodo, wg, services, schemas, urls, gout>>
    /\ UNCHANGED statusVars

\* services[n] = s (part_000:53) or schemas[url] = s (part_000:83)
WStore(i) ==
    /\ ~GenStopped
    /\ wk[i].pc = "store"
    /\ IF wk[i].kind = "service"
       THEN /\ services' = MapPut(services, wk[i].key, wk[i].val)
            /\ UNCHANGED schemas
       ELSE /\ schemas' = MapPut(schemas, wk[i].key, wk[i].val)
            /\ UNCHANGED services
    /\ wk' = [wk EXCEPT ![i].pc = "unlock"]
    /\ UNCHANGED <<gpc, gmanifest, gtodo, mutex, wg, urls, gout>>
    /\ UNCHANGED statusVars

\* mutex.Unlock() (part_000:54, 84)
WUnlock(i) ==
    /\ ~GenStopped
    /\ wk[i].pc = "unlock"
    /\ mutex' = 0
    /\ wk' = [wk EXCEPT ![i].pc = "signal"]
    /\ UNCHANGED <<gpc, gmanifest, gtodo, wg, services, schemas, urls, gout>>
    /\ UNCHANGED statusVars

\* A mutation of WDone: the worker ends without its signal.
WDoneLost(i) ==
    /\ ~GenStopped
    /\ wk[i].pc = "signal"
    /\ wk' = [wk EXCEPT ![i].pc = "ended"]
    /\ UNCHANGED <<gpc, gmanifest, gtodo, mutex, wg, services, schemas, urls, gout>>
    /\ UNCHANGED statusVars

\* wg.Done() (part_000:55, 85)
WDone(i) ==
    /\ ~GenStopped
    /\ wk[i].pc = "signal"
    /\ wg' = wg - 1
    /\ wk' = [wk EXCEPT ![i].pc = "ended"]
    /\ UNCHANGED <<gpc, gmanifest, gtodo, mutex, services, schemas, urls, gout>>
    /\ UNCHANGED statusVars

InitGen ==
    /\ StatusIdle
    /\ gpc = "start"
    /\ gmanifest = {}
    /\ gtodo = <<>>
    /\ mutex = 0
    /\ wg = 0
    /\ services = EmptyMap
    /\ schemas = EmptyMap
    /\ urls = {}
    /\ wk = <<>>
    /\ gout = <<>>

NextGen ==
    \/ GFetchManifest
    \/ GSpawnService
    \/ GEmitServices
    \/ GAddSchemaCheck
    \/ GAddSchemaInsert
    \/ GAddSchemaLaunch
    \/ GEmitSchemas
    \/ GFormat
    \/ \E i \in 1..Len(wk) : WFetch(i)
    \/ \E i \in 1..Len(wk) : WLock(i)
    \/ \E i \in 1..Len(wk) : WStore(i)
    \/ \E i \in 1..Len(wk) : WUnlock(i)
    \/ \E i \in 1..Len(wk) : WDone(i)

SpecGen == InitGen /\ [][NextGen]_vars

\* The most worker goroutines of a run: one for each service of the manifest
\* and one for each schema URL.
MaxWorkers == MaxServices + Cardinality(SchemaURLs)

\* A step of the goroutine that runs GenerateServices.
GMain ==
    \/ GFetchManifest
    \/ GSpawnService
    \/ GEmitServices
    \/ GAddSchemaCheck
    \/ GAddSchemaInsert
    \/ GAddSchemaLaunch
    \/ GEmitSchemas
    \/ GFormat

\* A step of the i-th worker goroutine.
WStep(i) ==
    /\ i \in 1..Len(wk)
    /\ \/ WFetch(i)
       \/ WLock(i)
       \/ WStore(i)
       \/ WUnlock(i)
       \/ WDone(i)

\* The Go scheduler runs every goroutine that can take a step, and a fetch
\* returns: no goroutine that stays able to take a step waits for ever.
GenFairness ==
    /\ WF_vars(GMain)
    /\ \A i \in 1..MaxWorkers : WF_vars(WStep(i))

\* SpecGenFair: GenerateServices under that scheduling.
SpecGenFair == InitGen /\ [][NextGen]_vars /\ GenFairness

-----------------------------------------------------------------------------
(* C10: the key set of the scraped map. *)

AllFetchesSucceed == net.manifestOK /\ \A i \in 1..Len(net.refs) : net.refs[i].ok

\* id is the part of host before its first ".", or all of host when it has none.
IsIdentOf(id, host) ==
    /\ \A i \in 1..Len(id) : id[i] # DOT
    /\ \/ host = id
       \/ /\ Len(host) > Len(id)
          /\ SubSeq(host, 1, Len(id)) = id
          /\ host[Len(id) + 1] = DOT

Prefixes(s) == { SubSeq(s, 1, k) : k \in 0..Len(s) }

\* The hostnames of the references of the world that have an entry named "ping".
PingHosts ==
    { Hostname(net.refs[i].api.BaseURL) :
        i \in { j \in 1..Len(net.refs) : net.refs[j].ok /\ HasPing(net.refs[j].api) } }

ExpectedKeys ==
    { id \in UNION { Prefixes(h) : h \in PingHosts } : \E h \in PingHosts : IsIdentOf(id, h) }

PingBaseURLsParse ==
    \A i \in 1..Len(net.refs) :
        (net.refs[i].ok /\ HasPing(net.refs[i].api)) => URLParseOK(net.refs[i].api.BaseURL)

\* C10 as stated: whenever all fetches of the manifest succeed, the key set of
\* the map ScrapePingURLs returns is the set of identifiers of the references
\* that have a "ping" entry.  Violated by a reference with a "ping" entry
\* whose base URL does not parse (status.go:197-200): the scrape ends there
\* with an error, and the map it returns has no key for that reference nor
\* for those after it.
C10_KeySetWheneverFetchesSucceed ==
    (call.op = "ScrapePingURLs" /\ AllFetchesSucceed)
        => DOMAIN call.out = ExpectedKeys

\* C10 amended: whenever all fetches of the manifest succeed and the base URL
\* of every reference with a "ping" entry parses, ScrapePingURLs returns no
\* error and a map whose key set is exactly the set of identifiers (the part
\* of the base URL's hostname before the first ".", or the whole hostname)
\* of the references that have a "ping" entry.
C10_KeySet ==
    (call.op = "ScrapePingURLs" /\ AllFetchesSucceed /\ PingBaseURLsParse)
        => (call.err = "nil" /\ DOMAIN call.out = ExpectedKeys)

\* Two references fetched, one with and one without a "ping" entry, the
\* hostname with a "." in it: one key.
C10_Witness ==
    /\ call.op = "ScrapePingURLs"
    /\ AllFetchesSucceed /\ PingBaseURLsParse
    /\ Len(net.refs) = 2
    /\ HasPing(net.refs[1].api) /\ ~HasPing(net.refs[2].api)
    /\ Len(net.refs[2].api.Entries) > 0
    /\ DOMAIN call.out = { <<"q">> }
    /\ Hostname(net.refs[1].api.BaseURL) = <<"q", DOT, "t">>

-----------------------------------------------------------------------------
(* C3: a refresh whose fetch fails. *)

FetchFails(w) == ~w.manifestOK \/ \E i \in 1..Len(w.refs) : ~w.refs[i].ok

\* The number of the first fetch that fails: 1 is the manifest's, i + 1 that
\* of the i-th reference.
FirstFailure(w) ==
    IF ~w.manifestOK THEN 1
    ELSE 1 + FirstIn([i \in 1..Len(w.refs) |-> w.refs[i].ok], {FALSE})

\* A step that is a call of RefreshCache.
RefreshStep == call.op = "none" /\ call'.op = "RefreshCache"

\* C3: if a fetch of a refresh (the manifest's or a reference's) fails, the
\* refresh issues no fetch after the first failing one, returns an error (the
\* fetch's, unless a base URL met before it did not parse) and leaves every
\* file, the cache file included, as it was.
C3_FailedRefreshLeavesCache ==
    [][(RefreshStep /\ FetchFails(net'))
         => /\ call'.err \in {"fetch", "parse"}
            /\ call'.n <= FirstFailure(net')
            /\ (call'.err = "fetch" => call'.n = FirstFailure(net'))
            /\ files' = files]_vars

\* A refresh has failed at its second reference after the first one gave an
\* entry of the map, with a record of an earlier refresh in the cache file.
C3_Witness ==
    /\ call.op = "RefreshCache"
    /\ call.err = "fetch"
    /\ Len(net.refs) = 2 /\ net.refs[1].ok /\ ~net.refs[2].ok
    /\ DOMAIN call.out = { <<"q">> }
    /\ files[CacheFile].kind = "json"
    /\ files[CacheFile].lastUpdated < now

-----------------------------------------------------------------------------
(* C5, C6: what Cache writes, and where. *)

\* A step that is a call of p.Cache(path) that returns no error.
CacheStepOK == call.op = "none" /\ call'.op = "Cache" /\ call'.err = "nil"

\* C5 as stated: after a successful p.Cache(path), ReadCachedURLsFile(path)
\* returns a record whose endpoints are p, key for key and value for value.
\* Violated for every path other than the package's cacheFile: the record is
\* written to cacheFile (status.go:163), so the file at path is still what it
\* was.
C5_RoundTrip ==
    (call.op = "Cache" /\ call.err = "nil")
        => LET r == ReadCachedURLsFile(files, call.path)
           IN  /\ r.err = "nil"
               /\ ~r.isNil
               /\ DOMAIN r.rec.PingURLs = DOMAIN call.arg
               /\ \A k \in DOMAIN call.arg : r.rec.PingURLs[k] = call.arg[k]

\* C6 as stated: a successful p.Cache(path) replaces the content of the file
\* at path by the record of p stamped with the current time, and changes no
\* other file.  Violated for every path other than cacheFile: the file at
\* cacheFile is replaced and the file at path is not written.
C6_WritesOnlyPath ==
    [][CacheStepOK
         => /\ files'[call'.path] = Marshal(CachedURLsRec(now, call'.arg))
            /\ \A q \in Paths \ {call'.path} : files'[q] = files[q]]_vars

-----------------------------------------------------------------------------
(* C7, C8: expiry. *)

\* The age of the record of the last call of Expired, at the time of the call.
CallAge == call.at - call.arg.lastUpdated

\* C7: Expired(maxAge) returns true if and only if the current time minus the
\* record's lastUpdated is strictly greater than maxAge; an age equal to or
\* less than maxAge gives false.
C7_ExpiredIffOlder ==
    (call.op = "Expired")
        => /\ (CallAge > call.arg.d) => (call.out = TRUE)
           /\ (CallAge <= call.arg.d) => (call.out = FALSE)

\* Expired(24h) has returned false for a record exactly 24 hours old.
C7_Witness ==
    /\ call.op = "Expired"
    /\ call.arg.d = MaxAge
    /\ CallAge = MaxAge
    /\ call.out = FALSE

\* C8 as stated: under the 24-hour maximum age a record exactly 24 hours old
\* is expired, and one 24 hours minus one second old is not.  Violated: the
\* comparison of status.go:168 is strict.
C8_ExactlyOneDayExpired ==
    (call.op = "Expired" /\ call.arg.d = MaxAge)
        => /\ (CallAge = MaxAge) => (call.out = TRUE)
           /\ (CallAge = MaxAge - 1) => (call.out = FALSE)

\* C8 amended: under the 24-hour maximum age a record exactly 24 hours old is
\* not expired, nor is one 24 hours minus one second old; one 24 hours plus
\* one second old is expired.
C8_Boundary ==
    (call.op = "Expired" /\ call.arg.d = MaxAge)
        => /\ (CallAge = MaxAge) => (call.out = FALSE)
           /\ (CallAge = MaxAge - 1) => (call.out = FALSE)
           /\ (CallAge = MaxAge + 1) => (call.out = TRUE)

\* Expired(24h) has returned true for a record 24 hours and one second old.
C8_Witness ==
    /\ call.op = "Expired"
    /\ call.arg.d = MaxAge
    /\ CallAge = MaxAge + 1
    /\ call.out = TRUE

-----------------------------------------------------------------------------
(* C1: arguments are validated before anything is polled. *)

HealthRequests == { i \in 1..Len(reqs) : reqs[i].kind = "health" }

\* C1: when the status command is run with a list of identifiers of which at
\* least one is not a key of the known map, the run is rejected with an error
\* and no health endpoint has been requested, not even for the valid
\* identifiers that precede the invalid one; nothing is reported.
C1_InvalidArgRejectedBeforeAnyRequest ==
    (call.op = "status" /\ \E i \in 1..Len(call.arg) : call.arg[i] \notin DOMAIN pingURLs)
        => /\ phase = "rejected"
           /\ call.err = "invalid"
           /\ HealthRequests = {}
           /\ reports = <<>>

\* status q z has been rejected, q being a known service and z not.
C1_Witness ==
    /\ call.op = "status"
    /\ call.arg = << <<"q">>, <<"z">> >>
    /\ <<"q">> \in DOMAIN pingURLs
    /\ phase = "rejected"

-----------------------------------------------------------------------------
(* C4, C9: what init() does with the cache file. *)

\* A step that is init().
BootStep == phase = "boot" /\ phase' # "boot"

\* The cache file holds a record that is not older than 24 hours.
FreshCache == files[CacheFile].kind = "json" /\ now - files[CacheFile].lastUpdated <= MaxAge

\* The cache file holds a record that is older than 24 hours.
ExpiredCache == files[CacheFile].kind = "json" /\ now - files[CacheFile].lastUpdated > MaxAge

\* The key/value pairs of map m.
PairsOf(m) == { <<k, m[k]>> : k \in DOMAIN m }

\* C4 as stated: when the cache file exists but cannot be read or parsed,
\* NewPingURLs refreshes from the manifest and returns the refreshed
\* endpoints; the read error is not returned and does not end the program.
\* Violated: NewPingURLs returns the read error without a refresh
\* (status.go:109-112) and init panics on it (status.go:71-73).
C4_UnreadableCacheIsRefreshed ==
    [][(BootStep /\ files[CacheFile].kind = "corrupt")
         => /\ reqs' # <<>>
            /\ call'.err # "read"
            /\ (call'.err = "nil"
                  => phase' = "ready" /\ pingURLs' = ScrapePingURLs(net').pingURLs)]_vars

\* C9: init() refreshes from the manifest exactly when the cache file is
\* absent or holds a record older than 24 hours; when the file holds a record
\* that is not older, init() issues no request, leaves every file as it is
\* and takes the cached map.  The cache file changes only in a refresh, and a
\* record written then carries the time of that refresh and the map scraped
\* in it: no read advances lastUpdated.
C9_RefreshOnlyWhenAbsentOrExpired ==
    [][/\ BootStep
          => /\ (reqs' # <<>>) <=> (files[CacheFile].kind = "absent" \/ ExpiredCache)
             /\ FreshCache
                  => /\ reqs' = <<>>
                     /\ files' = files
                     /\ phase' = "ready"
                     /\ PairsOf(pingURLs') = files[CacheFile].pairs
       /\ files' # files
          => /\ BootStep
             /\ reqs' # <<>>
             /\ files'[CacheFile].kind = "json"
                  => /\ files'[CacheFile].lastUpdated = now
                     /\ files'[CacheFile].pairs = PairsOf(ScrapePingURLs(net').pingURLs)]_vars

\* A process has started exactly 24 hours after the refresh that wrote the
\* cache file, and has taken the cached map of two services without a
\* request.
C9_Witness ==
    /\ call.op = "init"
    /\ phase = "ready"
    /\ reqs = <<>>
    /\ files[CacheFile].kind = "json"
    /\ now - files[CacheFile].lastUpdated = MaxAge
    /\ DOMAIN pingURLs = { <<"q">>, <<"a">> }

-----------------------------------------------------------------------------
(* C2: one fetch per schema URL. *)

\* The schema workers launched for URL u.
SchemaWorkers(u) == { i \in 1..Len(wk) : wk[i].kind = "schema" /\ wk[i].key = u }

\* The calls of addSchema, done or to come, that name URL u in a stage whose
\* loop visits the URLs todo.
Mentions(todo, u) == Cardinality({ i \in 1..Len(todo) : todo[i] = u })

\* C2: in a run of GenerateServices at most one fetch is ever launched for a
\* schema URL, however many entries name it and however the running workers
\* interleave; the test of the already scheduled set and the insertion into
\* it are atomic with respect to every other access: the set changes only by
\* that insertion, so at the insertion the URL is still not in the set.
C2_AtMostOneFetchPerURL ==
    [][/\ \A u \in SchemaURLs : Cardinality(SchemaWorkers(u))' <= 1
       /\ gpc' = "insert" => Head(gtodo') \notin urls'
       /\ urls' # urls => (gpc = "insert" /\ urls' = urls \cup {Head(gtodo)})]_vars

\* Two services have been fetched; the loop still has to pass u1 to
\* addSchema at least once more although u1 is scheduled already, its one
\* worker being in the middle of its store under the mutex, and u2 has its
\* worker too.
C2_Witness ==
    /\ gpc = "range2"
    /\ Cardinality(DOMAIN services) = 2
    /\ "u1" \in urls
    /\ Mentions(gtodo, "u1") >= 1
    /\ Cardinality(SchemaWorkers("u1")) = 1
    /\ Cardinality(SchemaWorkers("u2")) = 1
    /\ \E i \in SchemaWorkers("u1") : wk[i].pc = "store"

-----------------------------------------------------------------------------
(* C11, C12, C20: what the status command polls and reports. *)

\* The health requests of the process, in the order in which they were issued.
PolledSeq == SelectSeq(reqs, LAMBDA r : r.kind = "health")

PolledSet == { PolledSeq[i].svc : i \in 1..Len(PolledSeq) }

\* The services of a sequence of requests.
ServicesOf(rs) == [i \in 1..Len(rs) |-> rs[i].svc]

\* C11 as stated: run with an empty list of identifiers, the status command
\* polls every key of the known map exactly once and nothing else.  Violated
\* when a health request fails: status panics on the error of respbody
\* (status.go:262-264) and the identifiers after it are not polled.
C11_EmptyListPollsEveryKey ==
    (call.op = "status" /\ call.arg = <<>>)
        => /\ PolledSet = DOMAIN pingURLs
           /\ Len(PolledSeq) = Cardinality(DOMAIN pingURLs)

\* C11 amended: run with an empty list of identifiers, the status command
\* polls keys of the known map only, each at most once; it polls every key
\* exactly once when no health request fails, and it stops in a panic at the
\* first health request that fails.
C11_EmptyListPollsKnownKeys ==
    (call.op = "status" /\ call.arg = <<>>)
        => /\ phase \in {"ran", "panic"}
           /\ PolledSet \subseteq DOMAIN pingURLs
           /\ Len(PolledSeq) = Cardinality(PolledSet)
           /\ (\A i \in 1..Len(PolledSeq) : PolledSeq[i].ans # "fail")
                => (phase = "ran" /\ PolledSet = DOMAIN pingURLs)
           /\ \A i \in 1..Len(PolledSeq) :
                PolledSeq[i].ans = "fail" => (i = Len(PolledSeq) /\ phase = "panic")

\* status without arguments has polled the two known services, one alive and
\* one not.
C11_Witness ==
    /\ call.op = "status"
    /\ call.arg = <<>>
    /\ phase = "ran"
    /\ DOMAIN pingURLs = { <<"q">>, <<"a">> }
    /\ Len(PolledSeq) = 2
    /\ Len(reports) = 1

\* C12: the services reported as alive are, in order, exactly the polled
\* ones whose request succeeded with alive == true; a response with
\* alive == false gives no report and no error, and the next identifier is
\* polled: a run ends in a panic only at a failed request, and a run that
\* does not has polled its whole list.
C12_ReportedIffAlive ==
    (call.op = "status" /\ call.err = "nil")
        => /\ reports = ServicesOf(SelectSeq(PolledSeq, LAMBDA r : r.ans = "alive"))
           /\ \A i \in 1..(Len(PolledSeq) - 1) : PolledSeq[i].ans \in {"alive", "dead"}
           /\ phase = "panic" <=> (PolledSeq # <<>> /\ PolledSeq[Len(PolledSeq)].ans = "fail")
           /\ phase = "ran" => ServicesOf(PolledSeq) = PolledList(validArgs, call.arg)

\* status q a: q has answered alive == false, a alive == true, and a alone
\* is reported.
C12_Witness ==
    /\ call.op = "status"
    /\ call.arg = << <<"q">>, <<"a">> >>
    /\ phase = "ran"
    /\ ServicesOf(PolledSeq) = call.arg
    /\ PolledSeq[1].ans = "dead"
    /\ PolledSeq[2].ans = "alive"
    /\ reports = << <<"a">> >>

\* C20: once init() has returned, validArgs lists the keys of the map loaded
\* at start-up, each once; every identifier the poller is given, through the
\* arguments or through the default of the empty list, is a key of that map,
\* so no health request is issued for an identifier without a URL.
C20_PolledHaveURLs ==
    (phase \in {"ready", "ran", "rejected"} \/ call.op = "status")
        => /\ { validArgs[i] : i \in 1..Len(validArgs) } = DOMAIN pingURLs
           /\ Len(validArgs) = Cardinality(DOMAIN pingURLs)
           /\ call.op = "init" => pingURLs = call.out
           /\ PolledSet \subseteq DOMAIN pingURLs
           /\ call.op = "status" /\ call.err = "nil" /\ phase = "ran"
                => ServicesOf(PolledSeq) = PolledList(validArgs, call.arg)

\* status a a: an argument given twice is polled twice, and has a URL.
C20_Witness ==
    /\ call.op = "status"
    /\ call.arg = << <<"a">>, <<"a">> >>
    /\ phase = "ran"
    /\ DOMAIN pingURLs = { <<"q">>, <<"a">> }
    /\ ServicesOf(PolledSeq) = call.arg

-----------------------------------------------------------------------------
(* C17: the values of the scraped map. *)

\* The references that have put an entry into the map: those fetched (the
\* i-th reference is the (i + 1)-th fetch) that have an entry named "ping"
\* and a base URL that parses.
Stored ==
    { i \in 1..Len(net.refs) :
        /\ i + 1 <= call.n
        /\ net.refs[i].ok
        /\ HasPing(net.refs[i].api)
        /\ URLParseOK(net.refs[i].api.BaseURL) }

\* The route of the entry named "ping" that no entry named "ping" precedes.
RouteOfFirstPing(api) ==
    LET j == CHOOSE j \in 1..Len(api.Entries) :
                 /\ api.Entries[j].Name = PING
                 /\ \A l \in 1..(j - 1) : api.Entries[l].Name # PING
    IN  api.Entries[j].Route

\* Reference i has identifier k.
HasIdent(i, k) == IsIdentOf(k, Hostname(net.refs[i].api.BaseURL))

\* C17: every reference with an entry named "ping" that the scrape has
\* processed has its identifier in the map, and the value under an identifier
\* is baseURL + route of the first "ping" entry of one reference, the last
\* processed among those with that identifier: base URL and route are never
\* those of two different references, nor the route that of a later "ping"
\* entry.
C17_ValueIsBaseURLPlusFirstPingRoute ==
    (call.op = "ScrapePingURLs")
        => /\ \A i \in Stored : \E k \in DOMAIN call.out : HasIdent(i, k)
           /\ \A k \in DOMAIN call.out :
                \E i \in Stored :
                    /\ HasIdent(i, k)
                    /\ \A j \in Stored : HasIdent(j, k) => j <= i
                    /\ call.out[k] = net.refs[i].api.BaseURL
                                         \o RouteOfFirstPing(net.refs[i].api)

\* Two references with hostnames q.t and q.x share the identifier q; the
\* second has two entries named "ping", and the map holds its base URL
\* followed by the route of the first of them.
C17_Witness ==
    /\ call.op = "ScrapePingURLs"
    /\ call.err = "nil"
    /\ Len(net.refs) = 2
    /\ Stored = {1, 2}
    /\ net.refs[1].api.BaseURL = <<SCHEME, "q", DOT, "t">>
    /\ net.refs[2].api.BaseURL = <<SCHEME, "q", DOT, "x", PATHV1>>
    /\ Len(net.refs[2].api.Entries) = 2
    /\ net.refs[2].api.Entries[2].Name = PING
    /\ DOMAIN call.out = { <<"q">> }
    /\ call.out[<<"q">>] = <<SCHEME, "q", DOT, "x", PATHV1, "/ping">>

-----------------------------------------------------------------------------
(* C18: a refresh whose write of the cache fails. *)

\* C18 as stated: when the scrape of a RefreshCache succeeds and persisting
\* the cache fails, at whichever step of Cache, RefreshCache returns the error
\* to its caller and does not crash.  Violated when os.MkdirAll fails: Cache
\* returns a nil *CachedURLs with the error (status.go:150-153), and
\* RefreshCache evaluates cachedURLs.PingURLs on it (status.go:128), a nil
\* pointer dereference that panics.
C18_PersistFailureIsReturned ==
    (call.op = "RefreshCache" /\ ScrapePingURLs(net).err = "nil" /\ call.err # "nil")
        => call.err \in {"mkdir", "write"}

-----------------------------------------------------------------------------
(* C13: a schema fetch that fails. *)

\* The workers of a stage.
StageWorkers(kind) == { i \in 1..Len(wk) : wk[i].kind = kind }

SchemaFetchFailed == \E i \in StageWorkers("schema") : wk[i].pc = "failed"

\* The map of variable v has been printed to the buffer.
Emitted(v) == \E j \in 1..Len(gout) : gout[j].var = v

\* C13: when a schema fetch fails the run is over: the process has ended
\* (log.Fatalln), whatever the other workers have fetched or are fetching,
\* and nothing happens after that; the schemas map has not been printed and
\* GenerateServices never returns the buffer.
C13_FailedSchemaFetchAborts ==
    [][/\ SchemaFetchFailed' => (gpc' = "fatal" /\ ~Emitted("schemas")')
       /\ gpc = "fatal" => UNCHANGED vars]_vars

\* The fetch of schema u1 has failed after the two services were fetched and
\* emitted, while the worker of u2 was still fetching.
C13_Witness ==
    /\ gpc = "fatal"
    /\ Cardinality(DOMAIN services) = 2
    /\ Emitted("services")
    /\ \E i \in SchemaWorkers("u1") : wk[i].pc = "failed"
    /\ \E i \in SchemaWorkers("u2") : wk[i].pc = "fetch"

-----------------------------------------------------------------------------
(* C15: the barrier between the stages. *)

StageKeys(kind) == { wk[i].key : i \in StageWorkers(kind) }

\* Every worker of the stage has stored its result and has finished.
StageOver(kind, acc) ==
    \A i \in StageWorkers(kind) : wk[i].pc = "ended" /\ wk[i].key \in DOMAIN acc

\* The map printed for variable v has one entry for each worker of the stage.
OneEntryPerWorker(v, kind) ==
    \A j \in 1..Len(gout) :
        gout[j].var = v
            => /\ DOMAIN gout[j].val = StageKeys(kind)
               /\ Cardinality(DOMAIN gout[j].val) = Cardinality(StageWorkers(kind))
               /\ \A i \in StageWorkers(kind) : gout[j].val[wk[i].key] = wk[i].val

\* C15: a schema worker exists, or the services map has been emitted, only
\* when every service worker has stored its result and finished; the schemas
\* map has been emitted only when every schema worker has too; the emitted
\* map of a stage has one entry for each worker launched in that stage.
C15_StageBarrier ==
    /\ (\/ StageWorkers("schema") # {}
        \/ Emitted("services")
        \/ gpc \in {"range2", "insert", "launch"})
          => (StageOver("service", services) /\ StageKeys("service") = gmanifest)
    /\ Emitted("schemas") => (StageOver("schema", schemas) /\ StageKeys("schema") = urls)
    /\ OneEntryPerWorker("services", "service")
    /\ OneEntryPerWorker("schemas", "schema")

\* Both maps have been emitted, each with two entries.
C15_Witness ==
    /\ Emitted("services") /\ Emitted("schemas")
    /\ Cardinality(StageWorkers("service")) = 2
    /\ Cardinality(StageWorkers("schema")) = 2
    /\ Cardinality(DOMAIN schemas) = 2

-----------------------------------------------------------------------------
(* C16: the mutex. *)

\* C16: a worker is at its write of services or schemas only while it holds
\* the mutex, so no two workers are at a write at once; a map is written
\* only by the worker that holds the mutex, at its own key; and the calling
\* goroutine reads a map (to emit it, or to range over services) only when no
\* worker of that map's stage is left that has not finished.
C16_WritesUnderMutex ==
    [][/\ \A i \in 1..Len(wk') : wk'[i].pc \in {"store", "unlock"} => mutex' = i
       /\ \A i, j \in 1..Len(wk') : (wk'[i].pc = "store" /\ wk'[j].pc = "store") => i = j
       /\ (services' # services \/ schemas' # schemas)
            => /\ mutex \in 1..Len(wk)
               /\ wk[mutex].pc = "store"
               /\ IF wk[mutex].kind = "service"
                  THEN services' = MapPut(services, wk[mutex].key, wk[mutex].val)
                       /\ schemas' = schemas
                  ELSE schemas' = MapPut(schemas, wk[mutex].key, wk[mutex].val)
                       /\ services' = services
       /\ (Emitted("services")' /\ ~Emitted("schemas")' /\ gpc' # "fatal")
            => \A i \in StageWorkers("service")' : wk'[i].pc = "ended"
       /\ gout' # gout => \A i \in 1..Len(wk) : wk[i].pc = "ended"]_vars

\* A service worker is at its write under the mutex while the other waits
\* for the mutex.
C16_Witness ==
    /\ mutex \in 1..Len(wk)
    /\ wk[mutex].pc = "store"
    /\ wk[mutex].kind = "service"
    /\ \E j \in 1..Len(wk) : j # mutex /\ wk[j].pc = "lock"

-----------------------------------------------------------------------------
(* C14: the order of the emitted entries. *)

\* String a comes before string b in lexicographic order: at the first
\* position where they differ a has the smaller byte, or a is a proper
\* prefix of b.
Precedes(a, b) ==
    LET x == Bytes[a]
        y == Bytes[b]
    IN  \E n \in 1..Len(y) :
            /\ n <= Len(x) + 1
            /\ \A l \in 1..(n - 1) : x[l] = y[l]
            /\ n = Len(x) + 1 \/ x[n] < y[n]

\* text lists the entries of map m, each once, the keys ascending.
IsSortedTextOf(text, m) ==
    /\ Len(text) = Cardinality(DOMAIN m)
    /\ { text[i][1] : i \in 1..Len(text) } = DOMAIN m
    /\ \A i \in 1..Len(text) : text[i][2] = m[text[i][1]]
    /\ \A i, j \in 1..Len(text) : i < j => Precedes(text[i][1], text[j][1])

\* C14: what is emitted for a map is determined by the map alone: its
\* entries, each once, in ascending lexicographic order of the keys, in
\* whatever order MapKeys has returned them and the workers have stored
\* them.  Two emissions of the same maps are therefore identical.
C14_EmissionSortedByKey ==
    \A j \in 1..Len(gout) : IsSortedTextOf(gout[j].text, gout[j].val)

\* Both maps have been emitted with two entries each; queue's worker was
\* launched before auth's, and auth is emitted first.
C14_Witness ==
    /\ gpc = "done"
    /\ Len(gout) = 2
    /\ Len(gout[1].text) = 2 /\ Len(gout[2].text) = 2
    /\ gout[1].text[1][1] = "auth" /\ gout[1].text[2][1] = "queue"
    /\ gout[2].text[1][1] = "u1" /\ gout[2].text[2][1] = "u2"
    /\ \E i, j \in StageWorkers("service") :
         /\ i < j
         /\ wk[i].key = "queue"
         /\ wk[j].key = "auth"

-----------------------------------------------------------------------------
(* C19: GenerateServices terminates. *)

\* The wait group counts the workers that have not signalled their end.
WgCountsRunning == wg = Cardinality({ i \in 1..Len(wk) : wk[i].pc # "ended" })

\* GenerateServices has returned, every worker having stored its result,
\* released the mutex and signalled.
GenReturned ==
    /\ gpc = "done"
    /\ wg = 0
    /\ mutex = 0
    /\ \A i \in 1..Len(wk) : wk[i].pc = "ended"
    /\ DOMAIN services = StageKeys("service")
    /\ DOMAIN schemas = StageKeys("schema")

\* C19: the wait group's counter is at every moment the number of workers
\* started that have not signalled (none signals twice, none is lost), and
\* if no fetch fails GenerateServices returns from gen.Format() with every
\* worker finished.
C19_Terminates ==
    /\ []WgCountsRunning
    /\ [](gpc # "fatal") => <>GenReturned

\* GenerateServices has returned after two service and two schema workers.
C19_Witness ==
    /\ GenReturned
    /\ Cardinality(StageWorkers("service")) = 2
    /\ Cardinality(StageWorkers("schema")) = 2

=============================================================================
